---- MODULE Spec2Model ----
(***************************************************************************)
(* State-machine model of the essay grading agent: the JSON extraction of  *)
(* agent.py / bibliography.py, the bounded-time reference search of        *)
(* bibliography.py / tools.py and the bibliography pipeline.               *)
(*                                                                         *)
(* Texts are sequences of tokens.  A token is a piece of text that the     *)
(* code only ever looks at as a whole: a code fence, the word json, white  *)
(* space, a JSON value of a given type, or junk.                           *)
(***************************************************************************)
EXTENDS Integers, Sequences, FiniteSets, TLC

VARIABLES
    entry,           \* the function the caller invoked
    pc,              \* position of the calling thread
    final_message,   \* grade_essay: normalized content of the last agent message
    ret,             \* grade_essay: the returned value
    reference,       \* search: the reference being searched
    workers,         \* one entry per search: its worker thread, and what
                     \* future.result(timeout=10) gave the caller
    urls,            \* search: local urls / results
    result,          \* search_single_reference: local result dict
    tool_ret,        \* search_reference: the returned string
    raised,          \* exception that escaped the entry function, or "none"
    ref_strings,     \* verify_bibliography: extracted reference strings
    search_results,  \* the list of record dicts (mutated in place by the verifier)
    llm_calls,       \* prompts sent through _invoke_llm, in order
    search_calls,    \* number of web searches submitted
    extract_reply,   \* reply of the extraction model call
    reply,           \* last reply of the verifier model
    first            \* verified/notes of every record after the first verifier run

vars == <<entry, pc, final_message, ret, reference, workers, urls, result,
          tool_ret, raised, ref_strings, search_results, llm_calls,
          search_calls, extract_reply, reply, first>>

(***************************************************************************)
(* Bounds of the model.                                                    *)
(***************************************************************************)
MaxTextLen == 3      \* tokens in a final agent message
MaxParts == 2        \* parts of a multi-part agent message
MaxRefs == 2         \* references extracted from one essay
MaxVerdicts == 2     \* elements of the verifier's JSON array

NumResults == 3      \* search(reference, num_results=3, ...)

Refs == {"Smith 2020", "Doe 2019"}

(***************************************************************************)
(* Tokens and texts.                                                       *)
(***************************************************************************)
FENCE == "<fence>"     \* three backquotes
JSONTAG == "json"
WS == " "
NL == "\n"
JUNK == "junk"
ARR == "[..]"
OBJ == "{..}"
NULL == "null"

Tokens == {FENCE, JSONTAG, WS, JUNK, ARR, OBJ, NULL}

SeqsUpTo(S, n) == UNION {[1..k -> S] : k \in 0..n}

\* str.strip(): leading and trailing white space removed
RECURSIVE LStrip(_)
LStrip(t) ==
    IF t # <<>> /\ Head(t) \in {WS, NL} THEN LStrip(Tail(t)) ELSE t

RECURSIVE RStrip(_)
RStrip(t) ==
    IF t # <<>> /\ t[Len(t)] \in {WS, NL}
    THEN RStrip(SubSeq(t, 1, Len(t) - 1))
    ELSE t

Strip(t) == RStrip(LStrip(t))

\* positions at which the separator sep occurs in t
Occurrences(t, sep) ==
    {i \in 1..(Len(t) - Len(sep) + 1) : SubSeq(t, i, i + Len(sep) - 1) = sep}

\* sep in t
Contains(t, sep) == Occurrences(t, sep) # {}

FirstOcc(t, sep) ==
    CHOOSE i \in Occurrences(t, sep) : \A j \in Occurrences(t, sep) : i <= j

\* t.split(sep)[0]
Split0(t, sep) ==
    IF Contains(t, sep) THEN SubSeq(t, 1, FirstOcc(t, sep) - 1) ELSE t

\* t.split(sep)[1], defined when sep occurs in t
Split1(t, sep) ==
    Split0(SubSeq(t, FirstOcc(t, sep) + Len(sep), Len(t)), sep)

\* the text between the fences, as both parsers extract it
FencedOr(text) ==
    IF Contains(text, <<FENCE, JSONTAG>>)
    THEN Split0(Split1(text, <<FENCE, JSONTAG>>), <<FENCE>>)
    ELSE IF Contains(text, <<FENCE>>)
         THEN Split0(Split1(text, <<FENCE>>), <<FENCE>>)
         ELSE text

\* json.loads(t): the type of the value, or the error raised
Loads(t) ==
    LET s == Strip(t) IN
    IF Len(s) = 1 /\ s[1] \in {ARR, OBJ, NULL}
    THEN CASE s[1] = ARR -> "list"
           [] s[1] = OBJ -> "dict"
           [] OTHER -> "NoneType"
    ELSE "JSONDecodeError"

\* bibliography._parse_json_from_text
ParseJsonFromText(text) == Loads(Strip(FencedOr(Strip(text))))

(***************************************************************************)
(* grade_essay                                                             *)
(***************************************************************************)
Texts == SeqsUpTo(Tokens, MaxTextLen)

\* a part of a multi-part message: a string, or an object that may have "text"
Parts ==
    [isStr : {TRUE}, hasText : {TRUE}, text : SeqsUpTo(Tokens, 1)]
    \cup [isStr : {FALSE}, hasText : {TRUE}, text : SeqsUpTo(Tokens, 1)]
    \cup [isStr : {FALSE}, hasText : {FALSE}, text : {<<>>}]

Contents ==
    [isList : {FALSE}, text : Texts, parts : {<<>>}]
    \cup [isList : {TRUE}, text : {<<>>}, parts : SeqsUpTo(Parts, MaxParts)]

PartText(p) == IF p.isStr \/ p.hasText THEN p.text ELSE <<>>

\* "\n".join(...)
RECURSIVE JoinParts(_)
JoinParts(ps) ==
    IF ps = <<>> THEN <<>>
    ELSE IF Len(ps) = 1 THEN PartText(ps[1])
    ELSE PartText(ps[1]) \o <<NL>> \o JoinParts(Tail(ps))

Normalize(content) ==
    IF content.isList THEN JoinParts(content.parts) ELSE content.text

NoReturn == [pytype |-> "unset", parse_error |-> FALSE, raw_response |-> <<>>]

\* the envelope with the text that was handed to json.loads
EnvelopeOfExtracted(text) ==
    [pytype |-> "dict", parse_error |-> TRUE,
     raw_response |-> Strip(FencedOr(text))]

Envelope(text) ==
    [pytype |-> "dict", parse_error |-> TRUE, raw_response |-> text]

GradeReturn(message) ==
    LET parsed == Loads(Strip(FencedOr(message))) IN
    IF parsed = "JSONDecodeError"
    THEN Envelope(message)
    ELSE [pytype |-> parsed, parse_error |-> FALSE, raw_response |-> <<>>]

GradeEssay ==
    /\ entry = "grade_essay"
    /\ pc = "start"
    /\ \E content \in Contents :
          /\ final_message' = Normalize(content)
          /\ ret' = GradeReturn(Normalize(content))
    /\ pc' = "returned"
    /\ UNCHANGED <<entry, reference, workers, urls, result, tool_ret, raised,
                   ref_strings, search_results, llm_calls, search_calls,
                   extract_reply, reply, first>>

(***************************************************************************)
(* search_single_reference (bibliography.py) and the search_reference tool *)
(* (tools.py).  Both submit the web search to a one-worker executor, wait  *)
(* for the future with a timeout inside the executor's with-block, and     *)
(* leave the block (ThreadPoolExecutor.__exit__ is shutdown(wait=True),    *)
(* which joins the worker thread) before returning.                        *)
(***************************************************************************)
SearchEntries == {"search_single_reference", "search_reference"}

\* what the web search does once the worker runs it: it finds nothing or
\* all the results asked for, it raises, or it never comes back
Behaviours ==
    [kind : {"urls"}, n : {0, NumResults}, exc : {"none"}]
    \cup [kind : {"raise"}, n : {0}, exc : {"TimeoutError", "HTTPError"}]
    \cup [kind : {"hang"}, n : {0}, exc : {"none"}]

ToStr(n) ==
    CASE n = 0 -> "0" [] n = 1 -> "1" [] n = 2 -> "2" [] n = 3 -> "3"
      [] OTHER -> "4"

Url(i) == "https://example.org/" \o ToStr(i)

\* list(search(reference, num_results=3, lang="en")) returning n results
Urls(n) == [i \in 1..n |-> Url(i)]

\* str(e)
ExcMessage(exc) ==
    IF exc = "HTTPError" THEN "429 Too Many Requests" ELSE "timed out"

TimedOutNote == "Search timed out."
NoResultsNote == "No search results found. Reference may not exist."
FoundNote(n) == "Found " \o ToStr(n) \o " search results."
FailedNote(exc) == "Search failed: " \o ExcMessage(exc)

InitialResult(r) ==
    [reference |-> r, verified |-> FALSE, search_urls |-> <<>>, notes |-> ""]

NoResult == InitialResult("")

ToolTimedOut(r) ==
    "Search timed out for '" \o r \o "'. Could not verify this reference."
ToolNoResults(r) ==
    "NO RESULTS FOUND for: '" \o r
        \o "'. This reference may not exist or may be incorrectly cited."
ToolFailed(r, exc) ==
    "Search failed for '" \o r \o "': " \o ExcMessage(exc)
        \o ". Could not verify this reference."

RECURSIVE ToolLines(_, _)
ToolLines(us, i) ==
    IF i > Len(us) THEN ""
    ELSE "  " \o ToStr(i) \o ". " \o us[i] \o "\n" \o ToolLines(us, i + 1)

ToolFound(r, us) ==
    "Search results for: '" \o r \o "':\n" \o ToolLines(us, 1)
        \o "\nBased on these results, assess whether the reference is real "
        \o "and correctly cited (authors, year, title, journal)."

\* search_reference builds no result dict
ResultOf(rec) == IF entry = "search_reference" THEN NoResult ELSE rec

\* the worker of the search in progress is the last one started
Current == Len(workers)

\* shutdown(wait=True): joinable once the worker thread has ended
WorkerEnded(w) == w.status = "ended"

\* a joined worker thread is gone
NoBehaviour == [kind |-> "none", n |-> 0, exc |-> "none"]

Join(got) ==
    workers' = [workers EXCEPT ![Current] =
                   [status |-> "joined", beh |-> NoBehaviour, got |-> got]]

\* except TimeoutError, inside the with-block
InnerCatches(exc) == exc = "TimeoutError"

\* an outer handler that absorbs timeouts only
OuterCatchesTimeoutOnly(exc) == exc = "TimeoutError"

\* except Exception, around the with-block
OuterCatches(exc) == exc \in {"TimeoutError", "HTTPError"}

\* a comprehension that stops after the first reference
AfterSearchFirstOnly(done) == "verify"

\* [search_single_reference(ref) for ref in ref_strings]: the next reference
\* is searched once the record of this one is in the list, and the verifier
\* is called once the list is complete
AfterSearch(done) ==
    IF done < Len(ref_strings) THEN "call_search" ELSE "verify"

\* return of the search function: to the caller of the entry point, or into
\* the list comprehension of verify_bibliography
SearchReturns(rec, str) ==
    /\ result' = ResultOf(rec)
    /\ tool_ret' = IF entry = "search_reference" THEN str ELSE tool_ret
    /\ IF entry = "verify_bibliography"
       THEN /\ search_results' = Append(search_results, rec)
            /\ pc' = AfterSearch(Len(search_results) + 1)
       ELSE /\ search_results' = search_results
            /\ pc' = "returned"

\* build the result dict, create the executor and submit the search
Submit ==
    /\ pc = "call_search"
    /\ \E b \in Behaviours :
          workers' = Append(workers, [status |-> "running", beh |-> b,
                                        got |-> "pending"])
    /\ reference' = IF entry = "verify_bibliography"
                    THEN ref_strings[Len(search_results) + 1]
                    ELSE reference
    /\ result' = ResultOf(InitialResult(reference'))
    /\ urls' = <<>>
    /\ search_calls' = search_calls + 1
    /\ pc' = "wait"
    /\ UNCHANGED <<entry, final_message, ret, tool_ret, raised, ref_strings,
                   search_results, llm_calls,
                   extract_reply, reply, first>>

\* the worker thread: the search call comes back (a hanging call never does)
WorkerFinish ==
    /\ \E i \in 1..Len(workers) :
          /\ workers[i].status = "running"
          /\ workers[i].beh.kind # "hang"
          /\ workers' = [workers EXCEPT ![i].status = "ended"]
    /\ UNCHANGED <<entry, pc, final_message, ret, reference, urls, result,
                   tool_ret, raised, ref_strings, search_results, llm_calls,
                   search_calls,
                   extract_reply, reply, first>>

\* future.result(timeout=10) hands over the worker's list of urls
FutureResultValue ==
    /\ pc = "wait"
    /\ WorkerEnded(workers[Current])
    /\ workers[Current].beh.kind = "urls"
    /\ urls' = Urls(workers[Current].beh.n)
    /\ workers' = [workers EXCEPT ![Current].got = "value"]
    /\ pc' = "exit_ok"
    /\ UNCHANGED <<entry, final_message, ret, reference, result,
                   tool_ret, raised, ref_strings, search_results, llm_calls,
                   search_calls,
                   extract_reply, reply, first>>

\* future.result(timeout=10) re-raises the worker's exception: a TimeoutError
\* is caught inside the with-block, anything else by the outer handler, after
\* __exit__ has joined the (ended) worker
FutureResultRaises ==
    /\ pc = "wait"
    /\ WorkerEnded(workers[Current])
    /\ workers[Current].beh.kind = "raise"
    /\ LET exc == workers[Current].beh.exc IN
       IF InnerCatches(exc)
       THEN /\ result' = ResultOf([result EXCEPT !.notes = TimedOutNote])
            /\ workers' = [workers EXCEPT ![Current].got = exc]
            /\ pc' = "exit_timeout"
            /\ UNCHANGED <<tool_ret, search_results, raised>>
       ELSE IF OuterCatches(exc)
       THEN /\ Join(exc)
            /\ SearchReturns([result EXCEPT !.notes = FailedNote(exc)],
                             ToolFailed(reference, exc))
            /\ UNCHANGED raised
       ELSE /\ Join(exc)
            /\ raised' = exc
            /\ pc' = "raised"
            /\ UNCHANGED <<result, tool_ret, search_results>>
    /\ UNCHANGED <<entry, final_message, ret, reference, urls,
                   ref_strings, llm_calls, search_calls,
                   extract_reply, reply, first>>

\* future.result(timeout=10) gives up: the worker is still running
FutureResultTimeout ==
    /\ pc = "wait"
    /\ workers[Current].status = "running"
    /\ result' = ResultOf([result EXCEPT !.notes = TimedOutNote])
    /\ workers' = [workers EXCEPT ![Current].got = "TimeoutError"]
    /\ pc' = "exit_timeout"
    /\ UNCHANGED <<entry, final_message, ret, reference, urls,
                   tool_ret, raised, ref_strings, search_results, llm_calls,
                   search_calls,
                   extract_reply, reply, first>>

\* leaving the with-block: __exit__ returns once the worker thread has ended
ExecutorExit ==
    /\ pc \in {"exit_ok", "exit_timeout"}
    /\ WorkerEnded(workers[Current])
    /\ Join(workers[Current].got)
    /\ IF pc = "exit_ok"
       THEN /\ pc' = "sleep"
            /\ UNCHANGED <<result, tool_ret, search_results>>
       ELSE SearchReturns(result, ToolTimedOut(reference))
    /\ UNCHANGED <<entry, final_message, ret, reference, urls,
                   raised, ref_strings, llm_calls, search_calls,
                   extract_reply, reply, first>>

\* time.sleep(0.5), then the urls and the note are filled in
SleepAndReturn ==
    /\ pc = "sleep"
    /\ SearchReturns(
          [result EXCEPT !.search_urls = urls,
                         !.notes = IF urls = <<>> THEN NoResultsNote
                                   ELSE FoundNote(Len(urls))],
          IF urls = <<>> THEN ToolNoResults(reference)
          ELSE ToolFound(reference, urls))
    /\ UNCHANGED <<entry, final_message, ret, reference, workers, urls,
                   raised, ref_strings, llm_calls, search_calls,
                   extract_reply, reply, first>>

(***************************************************************************)
(* The bibliography pipeline: extract_references_with_llm,                 *)
(* verify_references_with_llm and verify_bibliography.                     *)
(***************************************************************************)
\* replies of the bibliography model calls: one text for each way through
\* _parse_json_from_text
ReplyTexts ==
    {<<ARR>>,                                  \* the bare array
     <<FENCE, JSONTAG, NL, ARR, NL, FENCE>>,   \* the array in a json fence
     <<JUNK, FENCE, OBJ, FENCE>>,              \* prose, an object in a plain fence
     <<OBJ>>,                                  \* JSON, an object
     <<FENCE, JSONTAG, NL, NULL, NL, FENCE>>,  \* JSON, null, in a json fence
     <<JUNK>>,                                 \* no JSON
     <<>>,                                     \* an empty reply
     <<JUNK, ARR>>,                            \* prose before the array, no fence
     <<FENCE, JSONTAG, JUNK, FENCE>>}          \* no JSON in a json fence

\* the elements of the array token of a reply matter only where the text
\* parses to that array
RefLists == SeqsUpTo(Refs, MaxRefs)

ExtractReplies ==
    UNION {{[text |-> t, refs |-> a] :
               a \in IF ParseJsonFromText(t) = "list" THEN RefLists ELSE {<<>>}} :
           t \in ReplyTexts}

NoExtractReply == [text |-> <<>>, refs |-> <<>>]

\* an extractor that takes a reply it cannot use for the one reference
ExtractedRefsOrReply(rep) ==
    IF ParseJsonFromText(rep.text) = "list" THEN rep.refs ELSE <<"Smith 2020">>

\* extract_references_with_llm: the strings of the array, else nothing
ExtractedRefs(rep) ==
    IF ParseJsonFromText(rep.text) = "list" THEN rep.refs ELSE <<>>

\* verify_bibliography returns [] at once when nothing was extracted
AfterExtract(refs) == IF refs = <<>> THEN "returned" ELSE "call_search"

ExtractReferences ==
    /\ entry = "verify_bibliography"
    /\ pc = "start"
    /\ \E rep \in ExtractReplies :
          /\ extract_reply' = rep
          /\ ref_strings' = ExtractedRefs(rep)
    /\ llm_calls' = Append(llm_calls, "extract")
    /\ pc' = AfterExtract(ref_strings')
    /\ UNCHANGED <<entry, final_message, ret, reference, workers, urls,
                   result, tool_ret, raised, search_results, search_calls,
                   reply, first>>

LlmNote == "Confirmed by the publisher's page."
Marker == " (LLM verification failed to parse)"

\* an element of the verifier's array: an object with a "reference" key and
\* optional "verified" and "notes", an object without "reference", or a value
\* that is no object
VerdictObjs ==
    {[isObj |-> TRUE, hasRef |-> TRUE, reference |-> r,
      hasVerified |-> hv, verified |-> v,
      hasNotes |-> hn, notes |-> IF hn THEN LlmNote ELSE ""] :
        r \in Refs, hv \in BOOLEAN, v \in BOOLEAN, hn \in BOOLEAN}

\* for each reference a verdict true with notes, a verdict false with notes
\* and one with the reference alone; then the malformed elements
Elements ==
    {e \in VerdictObjs : \/ e.hasVerified /\ e.hasNotes
                         \/ ~e.hasVerified /\ ~e.verified /\ ~e.hasNotes}
    \cup {[isObj |-> TRUE, hasRef |-> FALSE, reference |-> "",
           hasVerified |-> TRUE, verified |-> TRUE,
           hasNotes |-> FALSE, notes |-> ""],
          [isObj |-> FALSE, hasRef |-> FALSE, reference |-> "",
           hasVerified |-> FALSE, verified |-> FALSE,
           hasNotes |-> FALSE, notes |-> ""]}

VerifyReplies ==
    UNION {{[text |-> t, verdicts |-> a] :
               a \in IF ParseJsonFromText(t) = "list"
                     THEN SeqsUpTo(Elements, MaxVerdicts) ELSE {<<>>}} :
           t \in ReplyTexts}

NoReply == [text |-> <<>>, verdicts |-> <<>>]

\* refs_with_urls is not empty
HasUrls(recs) == \E i \in 1..Len(recs) : recs[i].search_urls # <<>>

\* {r["reference"]: r for r in llm_results}: the first element that is no
\* object, or has no "reference" key, raises
BadElements(vs) == {i \in 1..Len(vs) : ~vs[i].isObj \/ ~vs[i].hasRef}

MapRaises(vs) ==
    IF BadElements(vs) = {} THEN "none"
    ELSE LET i == CHOOSE k \in BadElements(vs) : \A j \in BadElements(vs) : k <= j
         IN IF vs[i].isObj THEN "KeyError" ELSE "TypeError"

\* ref["reference"] in llm_map
InMap(vs, r) == \E i \in 1..Len(vs) : vs[i].reference = r

\* llm_map[r]: a later element replaces an earlier one with the same key
LlmMap(vs, r) ==
    vs[CHOOSE i \in 1..Len(vs) :
          /\ vs[i].reference = r
          /\ \A j \in 1..Len(vs) : vs[j].reference = r => j <= i]

\* a merge that adds the verdict's notes to the notes of the search
MergeVerdictAppending(rec, vs) ==
    IF InMap(vs, rec.reference)
    THEN LET llm_ref == LlmMap(vs, rec.reference) IN
         [rec EXCEPT
            !.verified = IF llm_ref.hasVerified THEN llm_ref.verified ELSE FALSE,
            !.notes = IF llm_ref.hasNotes THEN rec.notes \o " " \o llm_ref.notes
                      ELSE rec.notes]
    ELSE rec

\* a merge that marks the records the reply has no verdict for
MergeVerdictMarkingOthers(rec, vs) ==
    IF InMap(vs, rec.reference)
    THEN LET llm_ref == LlmMap(vs, rec.reference) IN
         [rec EXCEPT
            !.verified = IF llm_ref.hasVerified THEN llm_ref.verified ELSE FALSE,
            !.notes = IF llm_ref.hasNotes THEN llm_ref.notes ELSE rec.notes]
    ELSE [rec EXCEPT !.notes = "Not assessed."]

MergeVerdict(rec, vs) ==
    IF InMap(vs, rec.reference)
    THEN LET llm_ref == LlmMap(vs, rec.reference) IN
         [rec EXCEPT
            !.verified = IF llm_ref.hasVerified THEN llm_ref.verified ELSE FALSE,
            !.notes = IF llm_ref.hasNotes THEN llm_ref.notes ELSE rec.notes]
    ELSE rec

AppendMarker(rec) == [rec EXCEPT !.notes = rec.notes \o Marker]

\* the records after the model replied, and the exception that escapes
VerifyRecords(recs, rep) ==
    LET llm_results == ParseJsonFromText(rep.text) IN
    IF llm_results = "JSONDecodeError"
    THEN [i \in 1..Len(recs) |-> AppendMarker(recs[i])]
    ELSE IF llm_results = "list" /\ MapRaises(rep.verdicts) = "none"
         THEN [i \in 1..Len(recs) |-> MergeVerdict(recs[i], rep.verdicts)]
         ELSE recs

VerifyRaises(rep) ==
    IF ParseJsonFromText(rep.text) = "list" THEN MapRaises(rep.verdicts)
    ELSE "none"

VerifiedNotes(recs) ==
    [i \in 1..Len(recs) |->
        [verified |-> recs[i].verified, notes |-> recs[i].notes]]

\* the caller's position once verify_references_with_llm is over: the
\* two-run caller runs it again, whether it returned or raised
AfterVerify(exc) ==
    IF entry = "verify_references_with_llm" /\ pc = "verify"
    THEN "verify_again"
    ELSE IF exc # "none" THEN "raised" ELSE "returned"

\* verify_references_with_llm(search_results); the second run of the
\* two-run caller asks a deterministic model, which replies as before
VerifyReferences ==
    /\ pc \in {"verify", "verify_again"}
    /\ IF ~HasUrls(search_results)
       THEN /\ pc' = AfterVerify("none")
            /\ UNCHANGED <<search_results, llm_calls, reply, raised>>
       ELSE \E rep \in VerifyReplies :
               /\ pc = "verify_again" => rep = reply
               /\ reply' = rep
               /\ llm_calls' = Append(llm_calls, "verify")
               /\ search_results' = VerifyRecords(search_results, rep)
               /\ raised' = VerifyRaises(rep)
               /\ pc' = AfterVerify(VerifyRaises(rep))
    /\ first' = IF pc = "verify" THEN VerifiedNotes(search_results') ELSE first
    /\ UNCHANGED <<entry, final_message, ret, reference, workers, urls,
                   result, tool_ret, ref_strings, search_calls, extract_reply>>

(***************************************************************************)
(* The records search_single_reference can return, as the input of a       *)
(* caller that runs verify_references_with_llm on its own.                 *)
(***************************************************************************)
SearchRecords ==
    UNION {{[InitialResult(r) EXCEPT !.notes = TimedOutNote],
            [InitialResult(r) EXCEPT !.notes = FailedNote("HTTPError")],
            [InitialResult(r) EXCEPT !.notes = NoResultsNote]}
           \cup {[InitialResult(r) EXCEPT !.search_urls = Urls(NumResults),
                                          !.notes = FoundNote(NumResults)]} :
           r \in Refs}

\* the entry points of the program: app.py calls grade_essay, the agent
\* calls the search_reference tool, the command line of bibliography.py
\* calls search_single_reference or verify_bibliography
Entries ==
    {"grade_essay", "search_single_reference", "search_reference",
     "verify_bibliography"}

\* the state in which a caller invokes one of the entry points E
Start(E) ==
    /\ entry \in E
    /\ pc = CASE entry \in SearchEntries -> "call_search"
              [] entry = "verify_references_with_llm" -> "verify"
              [] OTHER -> "start"
    /\ final_message = <<>>
    /\ ret = NoReturn
    /\ reference \in IF entry \in SearchEntries THEN Refs ELSE {""}
    /\ workers = <<>>
    /\ urls = <<>>
    /\ result = NoResult
    /\ tool_ret = ""
    /\ raised = "none"
    /\ ref_strings = <<>>
    /\ search_results \in IF entry = "verify_references_with_llm"
                          THEN SeqsUpTo(SearchRecords, MaxRefs) ELSE {<<>>}
    /\ llm_calls = <<>>
    /\ search_calls = 0
    /\ extract_reply = NoExtractReply
    /\ reply = NoReply
    /\ first = <<>>

Init == Start(Entries)

Next ==
    \/ GradeEssay
    \/ Submit
    \/ WorkerFinish
    \/ FutureResultValue
    \/ FutureResultRaises
    \/ FutureResultTimeout
    \/ ExecutorExit
    \/ SleepAndReturn
    \/ ExtractReferences
    \/ VerifyReferences

Spec == Init /\ [][Next]_vars

\* a caller that runs verify_references_with_llm twice over records that
\* search_single_reference returned
VerifyInit == Start({"verify_references_with_llm"})

VerifySpec == VerifyInit /\ [][VerifyReferences]_vars

\* grade_essay alone
GradeInit == Start({"grade_essay"})

GradeSpec == GradeInit /\ [][GradeEssay]_vars

\* one search by search_single_reference or by the search_reference tool.
\* The calling thread and the worker thread are scheduled by the operating
\* system: each takes its next step when it has one.
SearchInit == Start(SearchEntries)

CallerStep ==
    \/ Submit
    \/ FutureResultValue
    \/ FutureResultRaises
    \/ FutureResultTimeout
    \/ ExecutorExit
    \/ SleepAndReturn

SearchNext == CallerStep \/ WorkerFinish

SearchSpec ==
    /\ SearchInit
    /\ [][SearchNext]_vars
    /\ WF_vars(CallerStep)
    /\ WF_vars(WorkerFinish)

\* every search record of a run is one search_single_reference can return
TypeOK ==
    /\ \A i \in 1..Len(search_results) :
          entry = "verify_bibliography" /\ pc \in {"call_search", "wait", "verify"}
             => search_results[i] \in SearchRecords
    /\ search_calls = Len(workers)

(***************************************************************************)
(* C1.  Both search functions eventually return to their caller, whatever  *)
(* the web search does -- also when it never comes back.                   *)
(* Checked under SearchSpec; the code does not have this property.         *)
(***************************************************************************)
C1_SearchEventuallyReturns == <>(pc = "returned")

(***************************************************************************)
(* C2.  search_single_reference never lets an exception escape.  When the  *)
(* search timed out it returns the record of the input reference with no   *)
(* urls, verified false and the note "Search timed out."; when the search  *)
(* failed otherwise, the record with no urls, verified false and the note  *)
(* "Search failed: <cause>".                                               *)
(***************************************************************************)
C2_SearchAbsorbsFailures ==
    entry = "search_single_reference" =>
        /\ raised = "none"
        /\ pc # "raised"
        /\ pc = "returned" =>
            /\ result.reference = reference
            /\ workers[1].got = "TimeoutError" =>
                  result = [reference |-> reference, verified |-> FALSE,
                            search_urls |-> <<>>, notes |-> "Search timed out."]
            /\ workers[1].got = "HTTPError" =>
                  result = [reference |-> reference, verified |-> FALSE,
                            search_urls |-> <<>>,
                            notes |-> "Search failed: 429 Too Many Requests"]

\* a search that failed with an HTTP error has returned its record
C2_Witness ==
    /\ entry = "search_single_reference"
    /\ pc = "returned"
    /\ workers[1].got = "HTTPError"

(***************************************************************************)
(* C8.  grade_essay returns a JSON object parsed from the final message or *)
(* the envelope {raw_response, parse_error: true}, never anything else.    *)
(* Checked under GradeSpec; the code does not have this property.          *)
(***************************************************************************)
C8_GradeReturnsObjectOrEnvelope ==
    entry = "grade_essay" /\ pc = "returned" =>
        /\ ret.pytype = "dict"
        /\ ret.parse_error => ret.raw_response = final_message

(***************************************************************************)
(* C10.  When the final message holds no valid JSON (no fence and the text *)
(* is not JSON, or a fence whose content is not JSON), grade_essay returns *)
(* exactly {raw_response: T, parse_error: true}, T the whole message.      *)
(***************************************************************************)
HasFence(m) == \E i \in 1..Len(m) : m[i] = FENCE

C10_NoJsonGivesEnvelope ==
    (/\ entry = "grade_essay"
     /\ pc = "returned"
     /\ \/ ~HasFence(final_message) /\ Loads(final_message) = "JSONDecodeError"
        \/ HasFence(final_message)
              /\ Loads(FencedOr(final_message)) = "JSONDecodeError")
    => /\ raised = "none"
       /\ ret = [pytype |-> "dict", parse_error |-> TRUE,
                 raw_response |-> final_message]

\* a message with white space around a fenced block that holds no JSON
C10_Witness ==
    /\ entry = "grade_essay"
    /\ pc = "returned"
    /\ ret.parse_error
    /\ HasFence(final_message)
    /\ final_message # Strip(FencedOr(final_message))

(***************************************************************************)
(* C3.  Running verify_references_with_llm twice over the same records,    *)
(* the model giving the same reply both times, leaves every record with    *)
(* the verified and notes of the first run -- for every reply.             *)
(* Checked under VerifySpec; the code does not have this property when the *)
(* reply is no JSON.                                                       *)
(***************************************************************************)
TwoRunsOver ==
    entry = "verify_references_with_llm" /\ pc \in {"returned", "raised"}

C3_VerifierIdempotent == TwoRunsOver => VerifiedNotes(search_results) = first

(***************************************************************************)
(* C3, as amended.  After the second run every record has the verified of  *)
(* the first run; it has the notes of the first run when the reply is      *)
(* JSON, and the notes of the first run followed by one more marker when   *)
(* the reply is no JSON.                                                   *)
(***************************************************************************)
C3_VerifierIdempotentOnJson ==
    TwoRunsOver =>
        /\ Len(search_results) = Len(first)
        /\ \A i \in 1..Len(first) :
              /\ search_results[i].verified = first[i].verified
              /\ search_results[i].notes =
                    IF llm_calls # <<>>
                          /\ ParseJsonFromText(reply.text) = "JSONDecodeError"
                    THEN first[i].notes \o " (LLM verification failed to parse)"
                    ELSE first[i].notes

\* two runs over two records, the model replying twice with text that is
\* no JSON
C3_Witness ==
    /\ TwoRunsOver
    /\ llm_calls = <<"verify", "verify">>
    /\ ParseJsonFromText(reply.text) = "JSONDecodeError"
    /\ Len(first) = 2

(***************************************************************************)
(* C4.  Whenever the verifier model's reply does not parse as an array (no *)
(* JSON, or JSON that is no array), every record gets the marker appended  *)
(* to its notes and stays unverified.                                      *)
(* The code does not have this property for JSON that is no array.         *)
(***************************************************************************)
FirstRunOver ==
    \/ entry = "verify_bibliography" /\ pc \in {"returned", "raised"}
          /\ ref_strings # <<>>
    \/ entry = "verify_references_with_llm" /\ pc = "verify_again"

SearchNotes ==
    {"Search timed out.", "Search failed: 429 Too Many Requests",
     "No search results found. Reference may not exist.",
     "Found 3 search results."}

C4_NoArrayMarksEveryRecord ==
    (/\ FirstRunOver
     /\ llm_calls # <<>> /\ llm_calls[Len(llm_calls)] = "verify"
     /\ ParseJsonFromText(reply.text) # "list")
    => \A i \in 1..Len(search_results) :
          /\ ~search_results[i].verified
          /\ \E n \in SearchNotes :
                search_results[i].notes = n \o " (LLM verification failed to parse)"

(***************************************************************************)
(* C5.  When the reply is an array of verdicts, a record whose reference   *)
(* is the key of a verdict gets the verified and notes of that verdict     *)
(* (false, and the notes it had, where the verdict has none); a record     *)
(* with no such verdict keeps verified false and its notes; no reference   *)
(* and no search_urls changes; no record is added, removed or reordered.   *)
(***************************************************************************)
VerdictsOnly(vs) == \A j \in 1..Len(vs) : vs[j].isObj /\ vs[j].hasRef

MergedFrom(old, new, vs) ==
    /\ new.reference = old.reference
    /\ new.search_urls = old.search_urls
    /\ IF \E j \in 1..Len(vs) : vs[j].reference = old.reference
       THEN \E j \in 1..Len(vs) :
               /\ vs[j].reference = old.reference
               /\ new.verified = (vs[j].hasVerified /\ vs[j].verified)
               /\ new.notes = IF vs[j].hasNotes THEN vs[j].notes ELSE old.notes
       ELSE /\ ~old.verified
            /\ ~new.verified
            /\ new.notes = old.notes

C5_MergeByExactKey ==
    [][(/\ pc \in {"verify", "verify_again"}
        /\ llm_calls' # llm_calls
        /\ ParseJsonFromText(reply'.text) = "list"
        /\ VerdictsOnly(reply'.verdicts))
       => /\ raised' = "none"
          /\ Len(search_results') = Len(search_results)
          /\ \A i \in 1..Len(search_results) :
                MergedFrom(search_results[i], search_results'[i],
                           reply'.verdicts)]_vars

\* a reply with a verdict for the first of two references only
C5_Witness ==
    /\ FirstRunOver
    /\ Len(search_results) = 2
    /\ Len(reply.verdicts) = 1
    /\ VerdictsOnly(reply.verdicts)
    /\ ParseJsonFromText(reply.text) = "list"
    /\ reply.verdicts[1].reference = search_results[1].reference
    /\ search_results[2].reference # search_results[1].reference
    /\ search_results[1].verified

(***************************************************************************)
(* C6.  Whatever the verifier model replies, verify_references_with_llm    *)
(* returns the records: no exception escapes it.                           *)
(* The code does not have this property.                                   *)
(***************************************************************************)
C6_VerifierNeverRaises ==
    entry \in {"verify_bibliography", "verify_references_with_llm"}
        => raised = "none" /\ pc # "raised"

(***************************************************************************)
(* C7.  In verify_bibliography, a reference whose search timed out comes   *)
(* back as a record with verified false, no urls and a note that tells of  *)
(* the timeout, whatever the other searches gave and whatever the verifier *)
(* model replied; the pipeline returns and does not raise.                 *)
(* The code does not have this property.                                   *)
(***************************************************************************)
PipelineOver == entry = "verify_bibliography" /\ pc \in {"returned", "raised"}

C7_TimedOutStaysUnverified ==
    PipelineOver =>
        \A i \in 1..Len(search_results) :
            workers[i].got = "TimeoutError" =>
                /\ pc = "returned"
                /\ search_results[i].reference = ref_strings[i]
                /\ ~search_results[i].verified
                /\ search_results[i].search_urls = <<>>
                /\ search_results[i].notes \in
                      {"Search timed out.",
                       "Search timed out. (LLM verification failed to parse)"}

(***************************************************************************)
(* C9.  When the extractor yields no references (an empty array, a reply   *)
(* that is no JSON, or JSON that is no array), verify_bibliography returns *)
(* the empty list, and no search and no verifier call is ever made: the    *)
(* extraction call is the only call of the run.                            *)
(***************************************************************************)
NothingExtracted ==
    /\ entry = "verify_bibliography"
    /\ pc # "start"
    /\ \/ ParseJsonFromText(extract_reply.text) # "list"
       \/ extract_reply.refs = <<>>

C9_NoReferencesNoCalls ==
    NothingExtracted =>
        /\ pc = "returned"
        /\ raised = "none"
        /\ search_results = <<>>
        /\ search_calls = 0
        /\ workers = <<>>
        /\ llm_calls = <<"extract">>

\* the extraction model answered with JSON that is no array
C9_Witness ==
    /\ NothingExtracted
    /\ pc = "returned"
    /\ ParseJsonFromText(extract_reply.text) = "dict"

(***************************************************************************)
(* C11.  In verify_bibliography with N >= 1 extracted references the       *)
(* searches are serial and in extraction order: a search is started only   *)
(* when every earlier search has returned its record, so at most one       *)
(* search call is open and at most one worker thread is alive; the search  *)
(* in progress is the one for the next extracted reference; the verifier   *)
(* model is called only after all N searches have returned; and the        *)
(* returned sequence has N records whose references are the extracted      *)
(* references in extraction order.                                         *)
(***************************************************************************)
SearchInProgress == pc \in {"wait", "exit_ok", "exit_timeout", "sleep"}

C11_SerialOrderedSearches ==
    entry = "verify_bibliography" /\ ref_strings # <<>> =>
        LET N == Len(ref_strings)
            done == Len(search_results)
        IN /\ done <= N
           /\ \A i \in 1..done : search_results[i].reference = ref_strings[i]
           /\ search_calls = IF SearchInProgress THEN done + 1 ELSE done
           /\ SearchInProgress => reference = ref_strings[done + 1]
           /\ \A i \in 1..Len(workers) :
                 workers[i].status # "joined" => SearchInProgress /\ i = done + 1
           /\ llm_calls \in {<<"extract">>, <<"extract", "verify">>}
           /\ llm_calls = <<"extract", "verify">> => done = N /\ search_calls = N
           /\ pc \in {"verify", "returned", "raised"} =>
                 done = N /\ search_calls = N

\* two different references were searched, the first search timing out, the
\* verifier was called and the pipeline returned
C11_Witness ==
    /\ entry = "verify_bibliography"
    /\ pc = "returned"
    /\ ref_strings = <<"Smith 2020", "Doe 2019">>
    /\ workers[1].got = "TimeoutError"
    /\ llm_calls = <<"extract", "verify">>
    /\ Len(search_results) = 2

====
